---- MODULE Spec2Model ----
(***************************************************************************)
(* Migration engine, database-resident lock and record store of            *)
(* mongo-migration-tool (package migration).                               *)
(*                                                                         *)
(* The repository carries two revisions of the engine in package           *)
(* migration: the engine whose Up/Down go through Engine.run and the       *)
(* earlier engine whose Up/Down go through Engine.migrate.  The variable   *)
(* impl says which one the fleet runs; the operators that differ between   *)
(* the two are modelled separately and selected by impl.                   *)
(*                                                                         *)
(* The database driver is a black box: a call either is answered by the    *)
(* server or fails without effect, and a call whose context is cancelled   *)
(* while it is in flight may have been applied by the server although the  *)
(* driver returns the context error.  sha256 is modelled as injective: a   *)
(* checksum is represented by the text it digests.                         *)
(***************************************************************************)
EXTENDS Integers, Sequences, FiniteSets, TLC

\* ------------------------------------------------------------------ bounds
NumEngines == 2    \* engines of the fleet
FleetCalls == 1    \* calls of each engine of the fleet
MaxCalls == 2      \* calls of the engine that works alone
OneCall == 1       \* calls of the engine whose single call is examined
MaxRegistered == 2 \* migrations handed to Register, over all its calls
MaxSnapshots == 2  \* calls of RegisteredMigrations
MaxEdits == 1      \* key insertions and deletions a caller makes in returned maps
MaxRegistryOps == 5 \* registrations, snapshots and edits of one process together
NumHandlers == 2   \* tool handlers the MCP server may have in flight
MaxRequests == 2   \* requests one MCP session receives
MaxHandles == 2    \* database handles one MCP server opens
MaxCloses == 2     \* calls of MCPServer.Close

Engines == 1..NumEngines

\* Version strings, as sequences of characters: "1" < "10" < "2".
Versions == { <<"1">>, <<"1", "0">>, <<"2">> }
NoTarget == <<>>
Targets == Versions \cup {NoTarget}

\* Descriptions: the one the code carries now and one an older build carried.
LiveDescription == "users"
Descriptions == {"users", "users (old)"}

Impls == {"run", "migrate"}
Topologies == {"replicaSet", "standalone"}

VARIABLES
    impl,        \* which engine revision is deployed
    topology,    \* deployment of the target database
    canIndex,    \* the database lets this user build indexes on the lock collection
    migrations,  \* Engine.migrations: version -> description (registry snapshot)
    records,     \* migrations collection: version -> documents, in insertion order
    data,        \* versions whose schema change (Migration.Up) is in the database
    lockDocs,    \* lock collection: the inserter of each document, oldest first
    uniqueIdx,   \* the unique index on lock_id exists
    ttlIdx,      \* the TTL index on acquired_at exists
    pc,          \* per engine: position inside Up/Down
    dir,         \* per engine: direction of the current (last) call
    target,      \* per engine: target of the current (last) call
    applied,     \* per engine: the map returned by getAppliedMap
    plan,        \* per engine: the versions still to execute
    cancelled,   \* per engine: the caller's context is cancelled
    result,      \* per engine: what the current (last) call returned
    budget,      \* per engine: Up/Down calls it may still start
    log,         \* per engine: versions whose Up/Down body was invoked, in order
    recs0,       \* per engine: the migrations collection when the call started
    prev,        \* per engine: the previous call, when it returned success
    status,      \* per engine: what the last GetStatus or Plan call returned
    err,         \* per engine: the error a failed loop turn made Up/Down return
    regImpl,     \* which revision of the registry is compiled in
    heap,        \* the map objects: 0 is the package's registry, the others were
                 \* made by RegisteredMigrations; each maps version -> description
    allocated,   \* number of maps RegisteredMigrations has made
    held,        \* the maps RegisteredMigrations has returned to its callers
    engineMap,   \* the map NewEngine was given (Engine.migrations), if it was called
    panicked,    \* a Register call has panicked
    regLog,      \* the migrations handed to Register so far, in order
    edits,       \* key insertions and deletions callers made in returned maps
    handlerRev,  \* which revision of the MCP tool handlers is compiled in
    client,      \* MCPServer.client: the stored database handle, 0 is nil
    db,          \* MCPServer.db: the handle the stored database belongs to, 0 is nil
    engine,      \* MCPServer.engine: the handle the stored engine is bound to, 0 is nil
    opened,      \* number of handles mongo.Connect has returned to the server
    disconnects, \* per handle: number of Disconnect calls made on it
    hpc,         \* per handler: position inside the tool handler
    hreq,        \* per handler: the request it is answering
    hret,        \* per handler: what the tool handler returned
    hfail,       \* per handler: the error the tool's operation ended with, if any
    arrived,     \* the requests the session has received, in arrival order
    inbox,       \* the requests not yet taken up
    outbox,      \* the responses written to the client, in order
    closePc,     \* position inside MCPServer.Close
    closeClient, \* Close's local variable client
    closes,      \* number of Close calls that have returned
    cancel,      \* s.cancel: the Start call whose stop function is stored, or none
    closeCancel, \* the cancel function a Close call in progress took
    starts,      \* per Start call: position, its context's state, what it returned
    cmd,         \* the mcp command: revision, position, standard input, exit code
    retry        \* the command's ping loop after mongo.Connect: revision, position,
                 \* attempt number, pings made, last ping error, context, result

vars == << impl, topology, canIndex, migrations, records, data, lockDocs, uniqueIdx, ttlIdx,
           pc, dir, target, applied, plan, cancelled, result, budget, log, recs0, prev,
           status, err, regImpl, heap, allocated, held, engineMap, panicked, regLog, edits,
           handlerRev, client, db, engine, opened, disconnects, hpc, hreq, hret, hfail,
           arrived, inbox, outbox, closePc, closeClient, closes, cancel, closeCancel,
          starts, cmd, retry >>

dbVars == << records, data, lockDocs, uniqueIdx, ttlIdx >>
regVars == << regImpl, heap, allocated, held, engineMap, panicked, regLog, edits >>
mcpVars == << handlerRev, client, db, engine, opened, disconnects, hpc, hreq, hret,
             hfail, arrived, inbox, outbox, closePc, closeClient, closes >>
runVars == << cancel, closeCancel, starts, cmd >>
envVars == << impl, topology, canIndex, migrations, regVars, mcpVars, runVars, retry >>

\* ------------------------------------------------------------ pure helpers

\* Byte value of a character, as sort.Strings compares them.
CharCode(c) == CASE c = "0" -> 48 [] c = "1" -> 49 [] c = "2" -> 50

\* a < b in the byte-wise lexicographic order of Go strings.
RECURSIVE StrLess(_, _)
StrLess(a, b) ==
    IF a = <<>> THEN b # <<>>
    ELSE IF b = <<>> THEN FALSE
    ELSE IF Head(a) = Head(b) THEN StrLess(Tail(a), Tail(b))
    ELSE CharCode(Head(a)) < CharCode(Head(b))

\* sort.Strings over a set of distinct strings.
RECURSIVE SortStrings(_)
SortStrings(S) ==
    IF S = {} THEN <<>>
    ELSE LET m == CHOOSE x \in S : \A y \in S \ {x} : StrLess(x, y)
         IN  <<m>> \o SortStrings(S \ {m})

\* slices.Reverse
RECURSIVE Reverse(_)
Reverse(s) == IF s = <<>> THEN <<>> ELSE Reverse(Tail(s)) \o <<Head(s)>>

Range(s) == { s[i] : i \in 1..Len(s) }

\* A checksum that digests the version alone.
checksumOfVersion(v, d) == << v >>

\* Engine.calculateChecksum: sha256 over "version:description".
calculateChecksum(v, d) == << v, ":", d >>

\* AppliedAt of a document: written by a run before the ones modelled, or by a
\* call of the behaviour (time.Now()).  A missing timestamp would be "null".
Earlier == "earlier"
TimeNow == "now"

\* Engine.newRecord
newRecord(v) ==
    [ version |-> v, description |-> migrations[v], applied_at |-> TimeNow,
      checksum |-> calculateChecksum(v, migrations[v]) ]

\* The registry's keys without the sort: some other order of the map.
getVersionsUnsorted == Reverse(SortStrings(DOMAIN migrations))

\* Engine.getSortedVersions
getSortedVersions == SortStrings(DOMAIN migrations)

\* Engine.getAppliedMap: Find sorted by version, then applied[r.Version] = r,
\* so a later document of a version overrides an earlier one.
getAppliedMap(recs) ==
    [ v \in { w \in Versions : recs[w] # <<>> } |-> recs[v][Len(recs[v])] ]

\* Collection.InsertOne on the migrations collection (no unique index on version).
InsertRecord(recs, doc) == [ recs EXCEPT ![doc.version] = Append(@, doc) ]

\* A delete whose filter matches every document of the migrations collection.
DeleteEveryRecord(recs, v) == [ w \in Versions |-> <<>> ]

\* Collection.DeleteOne({version: v}) on the migrations collection.
DeleteRecord(recs, v) == [ recs EXCEPT ![v] = IF @ = <<>> THEN @ ELSE Tail(@) ]

\* Collection.ReplaceOne({version}, record, upsert) of the earlier Engine.Force:
\* the first document of the version is replaced, or the record is inserted.
ReplaceRecord(recs, doc) ==
    [ recs EXCEPT ![doc.version] =
        IF @ = <<>> THEN <<doc>> ELSE <<doc>> \o Tail(@) ]

\* A DeleteMany whose filter matches no document of the lock collection.
deleteNoLock(docs) == docs

\* Collection.DeleteMany({lock_id}) of Engine.ForceUnlock.
DeleteManyLock(docs) == <<>>

\* ------------------------------------------------------------- the registry

RegistryImpls == {"panics", "overwrites"}

\* References to map objects: 0 is the package variable, the others are the maps
\* RegisteredMigrations makes.
Refs == 0..MaxSnapshots

EmptyMap == << >>

\* m[k] = val on a Go map.
MapPut(m, k, val) == [ x \in DOMAIN m \cup {k} |-> IF x = k THEN val ELSE m[x] ]

\* delete(m, k) on a Go map.
MapDelete(m, k) == [ x \in DOMAIN m \ {k} |-> m[x] ]

\* The migration values handed to Register: a version and what tells two
\* migrations of one version apart (the description).
MigrationValues == [ version : Versions, description : Descriptions ]

\* One turn of the loop of Register (registry.go): panic on a version that is
\* already there, otherwise store.
registerChecked(reg, m) ==
    IF m.version \in DOMAIN reg
    THEN [ reg |-> reg, panicked |-> TRUE ]
    ELSE [ reg |-> MapPut(reg, m.version, m.description), panicked |-> FALSE ]

\* Register of the revision that guards the map with a mutex: registered[v] = m.
registerLocked(reg, m) ==
    [ reg |-> MapPut(reg, m.version, m.description), panicked |-> FALSE ]

\* Register(migrations...): the loop stops at the first panic.
RECURSIVE Register(_, _)
Register(reg, ms) ==
    IF ms = <<>> THEN [ reg |-> reg, panicked |-> FALSE ]
    ELSE LET one == IF regImpl = "panics" THEN registerChecked(reg, Head(ms))
                    ELSE registerLocked(reg, Head(ms))
         IN  IF one.panicked THEN one ELSE Register(one.reg, Tail(ms))

\* A RegisteredMigrations that hands out the package's map itself.
registryItself(n) == 0

\* make(map[string]Migration) in RegisteredMigrations: a map object of its own.
makeMap(n) == n + 1

\* The first migration of regLog registered under version v.
RECURSIVE FirstRegistered(_, _)
FirstRegistered(lg, v) ==
    IF Head(lg).version = v THEN Head(lg).description ELSE FirstRegistered(Tail(lg), v)

\* ------------------------------------------------------------- the planners

\* Engine.planExecution (Engine.run): walk the sorted (down: reversed) versions.
RECURSIVE planWalk(_, _, _, _)
planWalk(versions, d, t, app) ==
    IF versions = <<>> THEN <<>>
    ELSE LET v == Head(versions)
             isApplied == v \in DOMAIN app
             take == IF (d = "up" /\ ~isApplied) \/ (d = "down" /\ isApplied)
                     THEN <<v>> ELSE <<>>
         IN  IF t # NoTarget /\ v = t
             THEN take
             ELSE take \o planWalk(Tail(versions), d, t, app)

\* A planner that tests the target only for the versions it appends.
RECURSIVE planWalkStopWhenTaken(_, _, _, _)
planWalkStopWhenTaken(versions, d, t, app) ==
    IF versions = <<>> THEN <<>>
    ELSE LET v == Head(versions)
             isApplied == v \in DOMAIN app
             taken == (d = "up" /\ ~isApplied) \/ (d = "down" /\ isApplied)
         IN  IF taken
             THEN IF t # NoTarget /\ v = t
                  THEN <<v>>
                  ELSE <<v>> \o planWalkStopWhenTaken(Tail(versions), d, t, app)
             ELSE planWalkStopWhenTaken(Tail(versions), d, t, app)

planExecutionStopWhenTaken(d, t, app) ==
    planWalkStopWhenTaken(IF d = "down" THEN Reverse(getSortedVersions) ELSE getSortedVersions,
                          d, t, app)

\* A planner that walks the recorded versions as well as the registered ones.
planEveryVersion(d, t, app) ==
    planWalk(IF d = "down" THEN Reverse(SortStrings(Versions)) ELSE SortStrings(Versions),
             d, t, app)

planExecution(d, t, app) ==
    planWalk(IF d = "down" THEN Reverse(getSortedVersions) ELSE getSortedVersions,
             d, t, app)

\* Engine.shouldStopAtTarget (earlier engine)
shouldStopAtTarget(t, currentVersion) == t # NoTarget /\ currentVersion = t

\* Engine.getMigrationsForUp (earlier engine)
RECURSIVE getMigrationsForUp(_, _, _)
getMigrationsForUp(versions, t, app) ==
    IF versions = <<>> THEN <<>>
    ELSE LET v == Head(versions)
         IN  IF v \notin DOMAIN app
             THEN IF shouldStopAtTarget(t, v)
                  THEN <<v>>
                  ELSE <<v>> \o getMigrationsForUp(Tail(versions), t, app)
             ELSE getMigrationsForUp(Tail(versions), t, app)

\* Engine.getMigrationsForDown (earlier engine); versions is walked from its end.
RECURSIVE getMigrationsForDown(_, _, _)
getMigrationsForDown(versions, t, app) ==
    IF versions = <<>> THEN <<>>
    ELSE LET v == versions[Len(versions)]
             rest == SubSeq(versions, 1, Len(versions) - 1)
         IN  IF v \in DOMAIN app
             THEN IF shouldStopAtTarget(t, v)
                  THEN <<>>
                  ELSE <<v>> \o getMigrationsForDown(rest, t, app)
             ELSE getMigrationsForDown(rest, t, app)

\* Engine.getMigrationsToExecute (earlier engine)
getMigrationsToExecute(d, t, app) ==
    IF d = "up" THEN getMigrationsForUp(getSortedVersions, t, app)
    ELSE getMigrationsForDown(getSortedVersions, t, app)

\* The plan of the deployed engine.
PlanOf(d, t, app) ==
    IF impl = "run" THEN planExecution(d, t, app) ELSE getMigrationsToExecute(d, t, app)

\* Engine.validateChecksum: TRUE when the stored checksum is the live one.
validateChecksum(v, rec) == rec.checksum = calculateChecksum(v, migrations[v])

\* The error a transaction attempt meets on a deployment without transactions.
TxnErrorCode == IF topology = "standalone" THEN 20 ELSE 0

\* isTransactionNotSupported (Engine.run) / the HasErrorCode(20) test (Engine.migrate)
isTransactionNotSupported(code) ==
    IF impl = "run" THEN code \in {20, 251, 303} ELSE code = 20

\* Engine.perform, the data half: what Migration.Up / Migration.Down changes.
performBody(d, v, dat) == IF d = "up" THEN dat \cup {v} ELSE dat \ {v}

\* A body whose change is made outside the session and survives the abort.
bodyChangeKept(d, v, dat) == IF d = "up" THEN dat \cup {v} ELSE dat \ {v}

\* A record-write failure answered by undoing the data change.
compensated(d, v, dat) == IF d = "up" THEN dat \ {v} ELSE dat \cup {v}

\* Engine.perform outside a transaction when its record write fails: the error
\* is returned and the data change the body made stays.
leftInPlace(d, v, dat) == dat

\* session.WithTransaction when the callback returns an error: the transaction is
\* aborted and the change the body made inside it is gone.
rolledBack(d, v, dat) == dat

\* A record half that writes on up and leaves the record where it is on down.
performRecordInsertOnly(d, v, recs) ==
    IF d = "up" THEN InsertRecord(recs, newRecord(v)) ELSE recs

\* Engine.perform, the record half: InsertOne(newRecord) / DeleteOne({version}).
performRecord(d, v, recs) ==
    IF d = "up" THEN InsertRecord(recs, newRecord(v)) ELSE DeleteRecord(recs, v)

\* The error a failed step hands to the engine, returned as it is by
\* Engine.perform: the one Migration.Up/Down returned, or the one InsertOne or
\* DeleteOne of the record returned (a body's own database calls return the
\* driver's errors too), or the one of StartSession.
Cause == "cause"

\* Engine.run: fmt.Errorf("%s: %w", ErrFailedToRunMigration, err).
runError(v, d, cause) == << "ErrFailedToRunMigration", cause >>

\* Engine.migrate: fmt.Errorf("interrupted at %s (%s): %w", version, direction, err).
migrateError(v, d, cause) == << "interrupted at", v, d, cause >>

\* The error value a failed loop turn makes Up/Down return.
ErrorOf(v, d, cause) ==
    IF impl = "run" THEN runError(v, d, cause) ELSE migrateError(v, d, cause)

\* Collection.DeleteOne({lock_id}) on the lock collection: the first match goes.
DeleteOneLock(docs) == IF docs = <<>> THEN docs ELSE Tail(docs)

\* The index-creation calls of acquireLock (errors ignored): the earlier engine
\* creates only the unique index; Engine.run also creates the TTL index.
\* A unique index cannot be built over duplicates.
ttlIdxAfter == ttlIdx \/ (impl = "run" /\ canIndex)
uniqueIdxAfter == uniqueIdx \/ (canIndex /\ Len(lockDocs) <= 1)

\* The server's answer to acquireLock's InsertOne: duplicate key?
isDuplicateKey(uniq) == uniq /\ lockDocs # <<>>

\* Engine.GetStatus of Engine.run's revision: one entry per registered version.
statusOfRegistered(recs) ==
    LET app == getAppliedMap(recs)
        versions == getSortedVersions
    IN  [ i \in 1..Len(versions) |->
            LET v == versions[i]
            IN  [ version |-> v,
                  description |-> migrations[v],
                  applied |-> v \in DOMAIN app,
                  applied_at |-> IF v \in DOMAIN app THEN app[v].applied_at ELSE "null" ] ]

\* Engine.GetStatus of the earlier revision: registered versions and the recorded
\* versions the registry does not know, sorted together.
statusOfAll(recs) ==
    LET app == getAppliedMap(recs)
        allVersions == SortStrings(DOMAIN migrations \cup DOMAIN app)
    IN  [ i \in 1..Len(allVersions) |->
            LET v == allVersions[i]
            IN  [ version |-> v,
                  description |-> IF v \in DOMAIN migrations THEN migrations[v]
                                  ELSE app[v].description,
                  applied |-> v \in DOMAIN app,
                  applied_at |-> IF v \in DOMAIN app THEN app[v].applied_at ELSE "null" ] ]

\* Engine.GetStatus of the deployed engine.
GetStatus(recs) == IF impl = "run" THEN statusOfRegistered(recs) ELSE statusOfAll(recs)

\* ------------------------------------------------------------ the MCP server

\* The repository carries two revisions of the tool handlers: the one that
\* answers a failure with toolErrorResult and a nil error, and the one that
\* returns the Go error to the SDK.
HandlerRevs == {"results", "errors"}

Handlers == 1..NumHandlers
Handles == 1..MaxHandles
NilClient == 0

\* JSON-RPC ids as they are on the wire: the number 1 and the string "1".
Ids == { [ type |-> "number", text |-> "1" ], [ type |-> "string", text |-> "1" ] }

\* Tools that go through ensureConnection, and one that does not.
DbTools == {"migration_up"}
Tools == DbTools \cup {"migration_create"}

Requests ==
    { [ id |-> i, method |-> "tools/call", tool |-> t ] : i \in Ids, t \in Tools }
        \cup { [ id |-> i, method |-> "unknown/method", tool |-> "none" ] : i \in Ids }
NoRequest == [ id |-> [ type |-> "none", text |-> "" ], method |-> "none", tool |-> "none" ]

\* Go errors, as the list of their parts; the nil error is the empty list.
NilError == << >>
ConnectError == << "failed to connect to mongodb" >>
DisconnectedError == << "client is disconnected" >>
LockHeldError == << "lock held" >>
MkdirError == << "mkdir" >>

\* *mcp.CallToolResult
NilResult == [ isError |-> FALSE, content |-> << >> ]

toolPlainResult(msg, e) ==
    [ isError |-> FALSE, content |-> << [ type |-> "text", text |-> << msg >> \o e ] >> ]

toolErrorResult(msg, e) ==
    [ isError |-> TRUE, content |-> << [ type |-> "text", text |-> << msg >> \o e ] >> ]

toolTextResult(text) ==
    [ isError |-> FALSE, content |-> << [ type |-> "text", text |-> << text >> ] >> ]

\* What a tool handler returns: (result, output, error).
NoReturn == [ result |-> NilResult, out |-> "", error |-> NilError ]
handlerReturn(r, o, e) == [ result |-> r, out |-> o, error |-> e ]

\* The handler's answer to a failed ensureConnection.
withConnection(e) ==
    IF handlerRev = "results"
    THEN handlerReturn(toolErrorResult("Database Connection Error", e), "", NilError)
    ELSE handlerReturn(NilResult, "", e)

\* handleUp, given what Engine.Up returned.
handleUp(e) ==
    IF handlerRev = "results"
    THEN IF e # NilError
         THEN handlerReturn(toolErrorResult("Migration 'Up' failed", e), "", NilError)
         ELSE handlerReturn(toolTextResult("Migrations applied successfully."), "", NilError)
    ELSE IF e # NilError
         THEN handlerReturn(NilResult, "", << "migration up failed" >> \o e)
         ELSE handlerReturn(NilResult, "Migrations applied successfully.", NilError)

\* handleCreate, given what os.MkdirAll returned.
handleCreate(e) ==
    IF handlerRev = "results"
    THEN IF e # NilError
         THEN handlerReturn(toolErrorResult("Could not create migrations directory", e), "", NilError)
         ELSE handlerReturn(toolTextResult("Created migration"), "", NilError)
    ELSE IF e # NilError
         THEN handlerReturn(NilResult, "", e)
         ELSE handlerReturn(NilResult, "Created migration", NilError)

\* An ensureConnection that assigns the result of a failed mongo.Connect.
nilOnFailedConnect(st) == [ client |-> NilClient, db |-> st.db, engine |-> st.engine ]

\* What ensureConnection leaves stored when mongo.Connect has failed: its
\* result goes to a local variable and the function returns.
afterFailedConnect(st) == st

\* What ensureConnection stores once mongo.Connect has returned handle c.
keepEngine(c) == [ client |-> c, db |-> c, engine |-> engine ]

storeConnection(c) == [ client |-> c, db |-> c, engine |-> c ]

\* The session layer.  An id is decoded into a Go value and encoded again when
\* the response is written.
decodeId(raw) == [ kind |-> IF raw.type = "number" THEN "float64" ELSE "string", val |-> raw.text ]

idAsText(v) == [ type |-> "string", text |-> v.val ]

encodeId(v) == [ type |-> IF v.kind = "float64" THEN "number" ELSE "string", text |-> v.val ]

\* The result object of a tools/call: a returned error becomes a result with
\* isError set, a nil result is built from the output.
callToolResult(ret) ==
    IF ret.error # NilError
    THEN [ isError |-> TRUE, content |-> << [ type |-> "text", text |-> ret.error ] >> ]
    ELSE IF ret.result = NilResult
         THEN toolTextResult(ret.out)
         ELSE ret.result

MethodNotFound == [ code |-> "-32601", message |-> "Method not found" ]

\* The response to a request: Result or Error is set, never both.
response(req, ret) ==
    [ jsonrpc |-> "2.0",
      id      |-> encodeId(decodeId(req.id)),
      result  |-> IF req.method = "tools/call" THEN << callToolResult(ret) >> ELSE << >>,
      error   |-> IF req.method = "tools/call" THEN << >> ELSE << MethodNotFound >> ]

\* ------------------------------------------------- the command's ping loop

\* The revisions of the loop: retryPing called recursively with an attempt
\* number (initEngine passes 5), retryPing with time.Sleep, runPingWithRetry
\* with a select on the context, and the loop inside the root command.
PingRevs == {"recursive", "sleep", "select", "inline"}

maxPingRetries == 5
maxRetries == 12

\* The number of the last attempt a revision makes.
lastAttempt(rev) == IF rev = "inline" THEN maxRetries ELSE maxPingRetries

\* The attempt number the loop starts with.
firstAttempt(rev) == IF rev = "recursive" THEN 5 ELSE 1

PingErrors == {"timeout", "refused"}

\* The loop of a command whose ping succeeded at the first attempt.
Connected ==
    retry = [ rev |-> "select", pc |-> "done", attempt |-> 1, made |-> 1,
              lastErr |-> "none", ctxDone |-> FALSE, result |-> "ok" ]

\* ------------------------------------------------- Start, and the mcp command

NumStarters == 2

\* The calls of MCPServer.Start on one server.
Starters == 1 .. NumStarters

\* s.cancel == nil.
NoCancel == 0

\* A Start call that has not been made.
NotStarted == [ pc |-> "idle", done |-> FALSE, ret |-> "none" ]

\* The revisions of runMCP: one returns Start's error to cobra, so that the
\* deferred Close runs; one ends the process with os.Exit(1) on an error that
\* is not an end of stream; one ends it with log.Fatalf on every error.
CmdRevs == {"returns", "exits", "fatal"}

\* No command drives the server (it is driven by direct calls).
NoCommand == [ rev |-> "returns", pc |-> "none", stdin |-> "open", exit |-> 0 ]

\* isClosingError: the error is, or mentions, an end of stream.
isClosingError(r) == r = "eof"

\* runMCP once Start has returned r: where the command goes on and the exit
\* code it has chosen.  "closing" is the return from runMCP, which runs the
\* deferred Close; "exited" is the end of the process, which does not.
runMCPAfterStart(rev, r) ==
    CASE r = "nil" -> [ pc |-> "closing", exit |-> 0 ]
      [] rev = "fatal" -> [ pc |-> "exited", exit |-> 1 ]
      [] isClosingError(r) -> [ pc |-> "closing", exit |-> 0 ]
      [] rev = "exits" -> [ pc |-> "exited", exit |-> 1 ]
      [] OTHER -> [ pc |-> "closing", exit |-> 1 ]

\* What the SDK's Run may return once its context is done or its reader is
\* at end of stream.
ServeOutcomes(done, eof) ==
    {"nil"} \cup (IF done THEN {"ctxErr"} ELSE {}) \cup (IF eof THEN {"eof"} ELSE {})

\* NewMCPServer: no handle is opened; nothing is in flight.
McpFresh ==
    /\ client = NilClient
    /\ db = NilClient
    /\ engine = NilClient
    /\ opened = 0
    /\ disconnects = [ c \in Handles |-> 0 ]
    /\ hpc = [ h \in Handlers |-> "idle" ]
    /\ hreq = [ h \in Handlers |-> NoRequest ]
    /\ hret = [ h \in Handlers |-> NoReturn ]
    /\ hfail = [ h \in Handlers |-> NilError ]
    /\ arrived = << >>
    /\ inbox = << >>
    /\ outbox = << >>
    /\ closePc = "idle"
    /\ closeClient = NilClient
    /\ closes = 0
    /\ cancel = NoCancel
    /\ closeCancel = NoCancel
    /\ starts = [ t \in Starters |-> NotStarted ]
    /\ cmd = NoCommand

McpConstructed ==
    /\ handlerRev = "results"
    /\ McpFresh

\* ------------------------------------------------------------------- Init

\* The registry after the init() functions registered the migrations of the
\* snapshot the engines were built with (cmd/root.go): one snapshot was taken
\* and handed to NewEngine.
RegistryLoaded ==
    /\ regImpl = "panics"
    /\ heap = [ r \in Refs |-> IF r <= 1 THEN migrations ELSE EmptyMap ]
    /\ allocated = 1
    /\ held = {1}
    /\ engineMap = << 1 >>
    /\ panicked = FALSE
    /\ regLog = [ i \in 1..Len(getSortedVersions) |->
                    [ version |-> getSortedVersions[i],
                      description |-> migrations[getSortedVersions[i]] ] ]
    /\ edits = 0

\* No migration of the call has failed.
NoError == <<>>

NoPrev == [ dir |-> "none", target |-> NoTarget, fromEmpty |-> FALSE ]

IsEmpty(recs) == \A v \in Versions : recs[v] = <<>>

\* The registry snapshots considered: every version, or all but the middle one.
Registries == { [ v \in S |-> LiveDescription ] : S \in { Versions, Versions \ { <<"1", "0">> } } }

\* The documents an earlier build (same or older description) may have written.
StoredDocs(v) ==
    { <<>> } \cup
    { << [ version |-> v, description |-> d, applied_at |-> Earlier,
           checksum |-> calculateChecksum(v, d) ] >> :
        d \in Descriptions }

InitEngines ==
    /\ pc = [ e \in Engines |-> "idle" ]
    /\ dir = [ e \in Engines |-> "up" ]
    /\ target = [ e \in Engines |-> NoTarget ]
    /\ applied = [ e \in Engines |-> <<>> ]
    /\ plan = [ e \in Engines |-> <<>> ]
    /\ cancelled = [ e \in Engines |-> FALSE ]
    /\ result = [ e \in Engines |-> "none" ]
    /\ log = [ e \in Engines |-> <<>> ]
    /\ recs0 = [ e \in Engines |-> records ]
    /\ prev = [ e \in Engines |-> NoPrev ]
    /\ status = [ e \in Engines |-> <<>> ]
    /\ err = [ e \in Engines |-> NoError ]

InitDb ==
    /\ impl \in Impls
    /\ topology \in Topologies
    /\ canIndex \in BOOLEAN
    /\ migrations \in Registries
    /\ RegistryLoaded
    /\ McpConstructed
    /\ Connected
    /\ lockDocs = <<>>
    /\ uniqueIdx = FALSE
    /\ ttlIdx = FALSE

\* A fleet of engines on a fresh database, all built with the same registry.
Init ==
    /\ InitDb
    /\ DOMAIN migrations # Versions
    /\ records = [ v \in Versions |-> <<>> ]
    /\ data = {}
    /\ budget = [ e \in Engines |-> FleetCalls ]
    /\ InitEngines

\* A database holding whatever earlier runs recorded, its lock indexes buildable.
InitStored ==
    /\ InitDb
    /\ canIndex
    /\ records \in [ Versions -> UNION { StoredDocs(v) : v \in Versions } ]
    /\ \A v \in Versions : records[v] \in StoredDocs(v)
    /\ data = { v \in Versions : records[v] # <<>> }
    /\ InitEngines

\* One engine, alone, on a database holding whatever earlier runs recorded.
InitSeq ==
    /\ InitStored
    /\ budget = [ e \in Engines |-> IF e = 1 THEN MaxCalls ELSE 0 ]

\* One engine making a single call on such a database.
InitOne ==
    /\ InitStored
    /\ budget = [ e \in Engines |-> IF e = 1 THEN OneCall ELSE 0 ]

\* One engine, alone, on a database with an empty migrations collection.
InitSeqEmpty == InitSeq /\ IsEmpty(records)

\* The lock documents processes that died inside a call have left behind: none,
\* one, or (where the unique index could not be built) two.
StaleLocks ==
    { <<>> } \cup { << f >> : f \in Engines \ {1} }
             \cup { << f, g >> : f \in Engines \ {1}, g \in Engines \ {1} }

\* One engine of Engine.run's revision, alone, on a database whose migrations
\* collection is empty and whose lock collection holds what dead processes left.
InitStale ==
    /\ impl = "run"
    /\ topology \in Topologies
    /\ canIndex \in BOOLEAN
    /\ migrations \in Registries
    /\ RegistryLoaded
    /\ McpConstructed
    /\ Connected
    /\ lockDocs \in StaleLocks
    /\ Len(lockDocs) > 1 => ~canIndex
    /\ uniqueIdx = (canIndex /\ lockDocs # <<>>)
    /\ ttlIdx = (canIndex /\ lockDocs # <<>>)
    /\ records = [ v \in Versions |-> <<>> ]
    /\ data = {}
    /\ budget = [ e \in Engines |-> IF e = 1 THEN MaxCalls ELSE 0 ]
    /\ InitEngines

\* ---------------------------------------------------------------- actions

Running(e) == pc[e] \in {"read", "loop", "noTxBody", "noTxRecord", "release"}

\* Engine.Up / Engine.Down enter Engine.run (Engine.migrate), which first calls
\* acquireLock: two (one) index creations whose errors are dropped, then InsertOne.
\* On an error the call returns without deferring releaseLock.
CallRun(e) ==
    /\ pc[e] = "idle"
    /\ budget[e] > 0
    /\ \E d \in {"up", "down"}, t \in Targets,
          net \in {"answered", "failed", "cancelledInFlight"} :
        LET dup == isDuplicateKey(uniqueIdxAfter)
            inserted == net # "failed" /\ ~dup
        IN  /\ ttlIdx' = ttlIdxAfter
            /\ uniqueIdx' = uniqueIdxAfter
            /\ lockDocs' = IF inserted THEN Append(lockDocs, e) ELSE lockDocs
            /\ cancelled' = [ cancelled EXCEPT ![e] = FALSE ]
            /\ result' = [ result EXCEPT ![e] =
                             IF net = "answered"
                             THEN (IF dup THEN "lockHeld" ELSE "running")
                             ELSE "lockErr" ]
            /\ pc' = [ pc EXCEPT ![e] = IF net = "answered" /\ ~dup THEN "read" ELSE "idle" ]
            /\ dir' = [ dir EXCEPT ![e] = d ]
            /\ target' = [ target EXCEPT ![e] = t ]
    /\ budget' = [ budget EXCEPT ![e] = @ - 1 ]
    /\ log' = [ log EXCEPT ![e] = <<>> ]
    /\ recs0' = [ recs0 EXCEPT ![e] = records ]
    /\ applied' = [ applied EXCEPT ![e] = <<>> ]
    /\ plan' = [ plan EXCEPT ![e] = <<>> ]
    /\ prev' = [ prev EXCEPT ![e] =
                   IF result[e] = "ok"
                   THEN [ dir |-> dir[e], target |-> target[e],
                          fromEmpty |-> IsEmpty(recs0[e]) ]
                   ELSE NoPrev ]
    /\ status' = [ status EXCEPT ![e] = <<>> ]
    /\ err' = [ err EXCEPT ![e] = NoError ]
    /\ UNCHANGED << envVars, records, data >>

\* Engine.run: getAppliedMap, then planExecution (a local computation).
ReadPlan(e) ==
    /\ pc[e] = "read"
    /\ \E answered \in BOOLEAN :
        IF answered /\ ~cancelled[e]
        THEN /\ applied' = [ applied EXCEPT ![e] = getAppliedMap(records) ]
             /\ plan' = [ plan EXCEPT ![e] = PlanOf(dir[e], target[e], getAppliedMap(records)) ]
             /\ pc' = [ pc EXCEPT ![e] = "loop" ]
             /\ UNCHANGED result
        ELSE /\ result' = [ result EXCEPT ![e] = "readErr" ]
             /\ pc' = [ pc EXCEPT ![e] = "release" ]
             /\ UNCHANGED << applied, plan >>
    /\ UNCHANGED << envVars, dbVars, dir, target, cancelled, budget, log, recs0, prev, status, err >>

\* One turn of the loop of Engine.run: the checksum test, then executeWithRetry
\* up to the end of session.WithTransaction.  The callback (Engine.perform) runs
\* inside the transaction, so its effects appear together at commit or not at all.
Execute(e) ==
    /\ pc[e] = "loop"
    /\ IF plan[e] = <<>>
       THEN /\ result' = [ result EXCEPT ![e] = "ok" ]
            /\ pc' = [ pc EXCEPT ![e] = "release" ]
            /\ UNCHANGED << records, data, plan, log, err >>
       ELSE LET v == Head(plan[e]) IN
            IF dir[e] = "up" /\ v \in DOMAIN applied[e] /\ ~validateChecksum(v, applied[e][v])
            THEN /\ result' = [ result EXCEPT ![e] = "checksumMismatch" ]
                 /\ pc' = [ pc EXCEPT ![e] = "release" ]
                 /\ UNCHANGED << records, data, plan, log, err >>
            ELSE \E out \in {"sessionErr", "bodyErr", "writeErr", "commit"} :
                 IF out = "sessionErr"
                 THEN /\ result' = [ result EXCEPT ![e] = "runErr" ]
                      /\ pc' = [ pc EXCEPT ![e] = "release" ]
                      /\ err' = [ err EXCEPT ![e] = ErrorOf(v, dir[e], Cause) ]
                      /\ UNCHANGED << records, data, plan, log >>
                 ELSE /\ log' = [ log EXCEPT ![e] = Append(@, v) ]
                      /\ IF ~cancelled[e] /\ TxnErrorCode # 0
                         THEN /\ IF isTransactionNotSupported(TxnErrorCode)
                                 THEN /\ pc' = [ pc EXCEPT ![e] = "noTxBody" ]
                                      /\ UNCHANGED << result, err >>
                                 ELSE /\ pc' = [ pc EXCEPT ![e] = "release" ]
                                      /\ result' = [ result EXCEPT ![e] = "runErr" ]
                                      /\ err' = [ err EXCEPT ![e] = ErrorOf(v, dir[e], Cause) ]
                              /\ UNCHANGED << records, data, plan >>
                         ELSE IF out = "commit" /\ ~cancelled[e]
                         THEN /\ data' = performBody(dir[e], v, data)
                              /\ records' = performRecord(dir[e], v, records)
                              /\ plan' = [ plan EXCEPT ![e] = Tail(@) ]
                              /\ UNCHANGED << pc, result, err >>
                         ELSE /\ result' = [ result EXCEPT ![e] = "runErr" ]
                              /\ pc' = [ pc EXCEPT ![e] = "release" ]
                              /\ err' = [ err EXCEPT ![e] = ErrorOf(v, dir[e], Cause) ]
                              /\ data' = IF out = "writeErr"
                                         THEN rolledBack(dir[e], v, data)
                                         ELSE data
                              /\ UNCHANGED << records, plan >>
    /\ UNCHANGED << envVars, lockDocs, uniqueIdx, ttlIdx, dir, target, applied,
                    cancelled, budget, recs0, prev, status >>

\* executeWithRetry after a transactions-not-supported error: Engine.perform again,
\* without a transaction.  First half: the migration body.
NoTxBody(e) ==
    /\ pc[e] = "noTxBody"
    /\ log' = [ log EXCEPT ![e] = Append(@, Head(plan[e])) ]
    /\ \E ok \in BOOLEAN :
        IF ok /\ ~cancelled[e]
        THEN /\ data' = performBody(dir[e], Head(plan[e]), data)
             /\ pc' = [ pc EXCEPT ![e] = "noTxRecord" ]
             /\ UNCHANGED << result, err >>
        ELSE /\ result' = [ result EXCEPT ![e] = "runErr" ]
             /\ pc' = [ pc EXCEPT ![e] = "release" ]
             /\ err' = [ err EXCEPT ![e] = ErrorOf(Head(plan[e]), dir[e], Cause) ]
             /\ UNCHANGED data
    /\ UNCHANGED << envVars, records, lockDocs, uniqueIdx, ttlIdx, dir, target, applied,
                    plan, cancelled, budget, recs0, prev, status >>

\* Second half: the record write, on its own.
NoTxRecord(e) ==
    /\ pc[e] = "noTxRecord"
    /\ \E ok \in BOOLEAN :
        IF ok /\ ~cancelled[e]
        THEN /\ records' = performRecord(dir[e], Head(plan[e]), records)
             /\ plan' = [ plan EXCEPT ![e] = Tail(@) ]
             /\ pc' = [ pc EXCEPT ![e] = "loop" ]
             /\ UNCHANGED << result, data, err >>
        ELSE /\ result' = [ result EXCEPT ![e] = "runErr" ]
             /\ pc' = [ pc EXCEPT ![e] = "release" ]
             /\ err' = [ err EXCEPT ![e] = ErrorOf(Head(plan[e]), dir[e], Cause) ]
             /\ data' = leftInPlace(dir[e], Head(plan[e]), data)
             /\ UNCHANGED << records, plan >>
    /\ UNCHANGED << envVars, lockDocs, uniqueIdx, ttlIdx, dir, target, applied,
                    cancelled, budget, log, recs0, prev, status >>

\* The deferred Engine.releaseLock(context.Background()): DeleteOne, error dropped.
Release(e) ==
    /\ pc[e] = "release"
    /\ \E answered \in BOOLEAN :
        lockDocs' = IF answered THEN DeleteOneLock(lockDocs) ELSE lockDocs
    /\ pc' = [ pc EXCEPT ![e] = "idle" ]
    /\ applied' = [ applied EXCEPT ![e] = <<>> ]
    /\ plan' = [ plan EXCEPT ![e] = <<>> ]
    /\ cancelled' = [ cancelled EXCEPT ![e] = FALSE ]
    /\ UNCHANGED << envVars, records, data, uniqueIdx, ttlIdx, dir, target,
                    result, budget, log, recs0, prev, status, err >>

\* The caller cancels the context of the call in progress.
Cancel(e) ==
    /\ Running(e) /\ pc[e] # "release"
    /\ ~cancelled[e]
    /\ cancelled' = [ cancelled EXCEPT ![e] = TRUE ]
    /\ UNCHANGED << envVars, dbVars, pc, dir, target, applied, plan, result, budget,
                    log, recs0, prev, status, err >>

\* The engine's process dies inside the call: nothing is released.
Crash(e) ==
    /\ Running(e)
    /\ pc' = [ pc EXCEPT ![e] = "dead" ]
    /\ dir' = [ dir EXCEPT ![e] = "up" ]
    /\ target' = [ target EXCEPT ![e] = NoTarget ]
    /\ applied' = [ applied EXCEPT ![e] = <<>> ]
    /\ plan' = [ plan EXCEPT ![e] = <<>> ]
    /\ cancelled' = [ cancelled EXCEPT ![e] = FALSE ]
    /\ result' = [ result EXCEPT ![e] = "none" ]
    /\ log' = [ log EXCEPT ![e] = <<>> ]
    /\ recs0' = [ recs0 EXCEPT ![e] = [ v \in Versions |-> <<>> ] ]
    /\ prev' = [ prev EXCEPT ![e] = NoPrev ]
    /\ err' = [ err EXCEPT ![e] = NoError ]
    /\ UNCHANGED << envVars, dbVars, budget, status >>

\* The database's TTL monitor removes the oldest lock document (acquired_at has
\* passed the expiry); migration bodies may run for longer than the expiry.
TTLExpire ==
    /\ ttlIdx
    /\ lockDocs # <<>>
    /\ lockDocs' = Tail(lockDocs)
    /\ UNCHANGED << envVars, records, data, uniqueIdx, ttlIdx, pc, dir, target, applied,
                    plan, cancelled, result, budget, log, recs0, prev, status, err >>

\* What the entry of any call other than Up/Down does to the caller's history.
StartOther(e, d, t) ==
    /\ pc[e] = "idle"
    /\ budget[e] > 0
    /\ budget' = [ budget EXCEPT ![e] = @ - 1 ]
    /\ dir' = [ dir EXCEPT ![e] = d ]
    /\ target' = [ target EXCEPT ![e] = t ]
    /\ log' = [ log EXCEPT ![e] = <<>> ]
    /\ recs0' = [ recs0 EXCEPT ![e] = records ]
    /\ prev' = [ prev EXCEPT ![e] =
                   IF result[e] = "ok"
                   THEN [ dir |-> dir[e], target |-> target[e],
                          fromEmpty |-> IsEmpty(recs0[e]) ]
                   ELSE NoPrev ]
    /\ err' = [ err EXCEPT ![e] = NoError ]
    /\ UNCHANGED << envVars, data, uniqueIdx, ttlIdx, applied, plan, cancelled >>

\* Engine.Force up to its first database call.  Engine.run's revision reads the
\* records and returns when the version has one; the earlier revision goes
\* straight to ReplaceOne with upsert.  Neither takes the lock.
CallForce(e) ==
    \E v \in Versions, answered \in BOOLEAN :
        /\ StartOther(e, "force", v)
        /\ status' = [ status EXCEPT ![e] = <<>> ]
        /\ UNCHANGED lockDocs
        /\ IF v \notin DOMAIN migrations
           THEN /\ result' = [ result EXCEPT ![e] = "notFound" ]
                /\ UNCHANGED << pc, records >>
           ELSE IF ~answered
           THEN /\ result' = [ result EXCEPT ![e] =
                                 IF impl = "run" THEN "readErr" ELSE "forceErr" ]
                /\ UNCHANGED << pc, records >>
           ELSE IF impl = "run"
           THEN IF v \in DOMAIN getAppliedMap(records)
                THEN /\ result' = [ result EXCEPT ![e] = "ok" ]
                     /\ UNCHANGED << pc, records >>
                ELSE /\ result' = [ result EXCEPT ![e] = "running" ]
                     /\ pc' = [ pc EXCEPT ![e] = "forceInsert" ]
                     /\ UNCHANGED records
           ELSE /\ records' = ReplaceRecord(records, newRecord(v))
                /\ result' = [ result EXCEPT ![e] = "ok" ]
                /\ UNCHANGED pc

\* Engine.Force (Engine.run's revision): the InsertOne that follows the read.
ForceInsert(e) ==
    /\ pc[e] = "forceInsert"
    /\ pc' = [ pc EXCEPT ![e] = "idle" ]
    /\ \E answered \in BOOLEAN :
        IF answered
        THEN /\ records' = InsertRecord(records, newRecord(target[e]))
             /\ result' = [ result EXCEPT ![e] = "ok" ]
        ELSE /\ result' = [ result EXCEPT ![e] = "forceErr" ]
             /\ UNCHANGED records
    /\ UNCHANGED << envVars, data, lockDocs, uniqueIdx, ttlIdx, dir, target, applied,
                    plan, cancelled, budget, log, recs0, prev, status, err >>

\* Engine.ForceUnlock (Engine.run's revision only): DeleteMany on the lock collection.
CallForceUnlock(e) ==
    /\ impl = "run"
    /\ StartOther(e, "unlock", NoTarget)
    /\ status' = [ status EXCEPT ![e] = <<>> ]
    /\ \E answered \in BOOLEAN :
        /\ lockDocs' = IF answered THEN DeleteManyLock(lockDocs) ELSE lockDocs
        /\ result' = [ result EXCEPT ![e] = IF answered THEN "ok" ELSE "unlockErr" ]
    /\ UNCHANGED << pc, records >>

\* Engine.GetStatus: one read of the records, then a local computation.
CallGetStatus(e) ==
    /\ StartOther(e, "status", NoTarget)
    /\ \E answered \in BOOLEAN :
        /\ status' = [ status EXCEPT ![e] = IF answered THEN GetStatus(records) ELSE <<>> ]
        /\ result' = [ result EXCEPT ![e] = IF answered THEN "ok" ELSE "readErr" ]
    /\ UNCHANGED << pc, records, lockDocs >>

Next ==
    \/ \E e \in Engines : CallRun(e)
    \/ \E e \in Engines : ReadPlan(e)
    \/ \E e \in Engines : Execute(e)
    \/ \E e \in Engines : NoTxBody(e)
    \/ \E e \in Engines : NoTxRecord(e)
    \/ \E e \in Engines : Release(e)
    \/ \E e \in Engines : Cancel(e)
    \/ \E e \in Engines : Crash(e)
    \/ TTLExpire
    \/ \E e \in Engines : CallForce(e)
    \/ \E e \in Engines : ForceInsert(e)
    \/ \E e \in Engines : CallForceUnlock(e)
    \/ \E e \in Engines : CallGetStatus(e)

Spec == Init /\ [][Next]_vars

SpecSeq == InitSeq /\ [][Next]_vars

\* Init of SpecSeq with Engine.run deployed.
InitSeqRun == InitSeq /\ impl = "run"

SpecSeqRun == InitSeqRun /\ [][Next]_vars

SpecOne == InitOne /\ [][Next]_vars

SpecSeqEmpty == InitSeqEmpty /\ [][Next]_vars

SpecStale == InitStale /\ [][Next]_vars

\* ----------------------------------------------------------- read-only calls

\* A read that removes what it has read.
findAndDelete(recs) == [ v \in Versions |-> <<>> ]

\* Collection.Find with cursor.All (Engine.getAppliedMap): the collection stays
\* as it is.
findRecords(recs) == recs

\* Engine.Plan (Engine.run's revision only): getAppliedMap, then planExecution.
CallPlan(e) ==
    /\ impl = "run"
    /\ \E d \in {"up", "down"}, t \in Targets, answered \in BOOLEAN :
        /\ StartOther(e, "plan", t)
        /\ status' = [ status EXCEPT ![e] =
                         IF answered THEN planExecution(d, t, getAppliedMap(records))
                         ELSE <<>> ]
        /\ result' = [ result EXCEPT ![e] = IF answered THEN "ok" ELSE "readErr" ]
    /\ records' = findRecords(records)
    /\ UNCHANGED << pc, lockDocs >>

\* One engine making a single call on a database holding whatever earlier runs
\* recorded, while the lock document of another engine may be in place.
InitReaders ==
    /\ impl \in Impls
    /\ topology \in Topologies
    /\ canIndex = TRUE
    /\ migrations \in Registries
    /\ RegistryLoaded
    /\ McpConstructed
    /\ Connected
    /\ lockDocs \in { <<>>, << 2 >> }
    /\ uniqueIdx = (lockDocs # <<>>)
    /\ ttlIdx = (impl = "run" /\ lockDocs # <<>>)
    /\ records \in [ Versions -> UNION { StoredDocs(v) : v \in Versions } ]
    /\ \A v \in Versions : records[v] \in StoredDocs(v)
    /\ data = { v \in Versions : records[v] # <<>> }
    /\ budget = [ e \in Engines |-> IF e = 1 THEN OneCall ELSE 0 ]
    /\ InitEngines

NextReaders ==
    \/ Next
    \/ \E e \in Engines : CallPlan(e)

SpecReaders == InitReaders /\ [][NextReaders]_vars

\* ------------------------------------------------- the registry's operations

\* Registrations, snapshots and edits made so far.
RegistryOps == Len(regLog) + allocated + edits

engineVars == << impl, topology, canIndex, dbVars, pc, dir, target, applied, plan,
                 cancelled, result, budget, log, recs0, prev, status, err >>

\* Engine.migrations is the map NewEngine was given, not a copy of it.
EngineView(h) == IF engineMap = <<>> THEN migrations ELSE h[engineMap[1]]

\* A process that has registered nothing yet and built no engine; the database
\* holds the record of one version.
InitRegistry ==
    /\ impl \in Impls
    /\ topology = "replicaSet"
    /\ canIndex = TRUE
    /\ migrations = EmptyMap
    /\ regImpl \in RegistryImpls
    /\ heap = [ r \in Refs |-> EmptyMap ]
    /\ allocated = 0
    /\ held = {}
    /\ engineMap = << >>
    /\ panicked = FALSE
    /\ regLog = << >>
    /\ edits = 0
    /\ McpConstructed
    /\ Connected
    /\ lockDocs = <<>>
    /\ uniqueIdx = FALSE
    /\ ttlIdx = FALSE
    /\ records = [ v \in Versions |-> IF v = <<"1">>
                                       THEN CHOOSE d \in StoredDocs(v) :
                                              d # <<>> /\ d[1].description = LiveDescription
                                       ELSE <<>> ]
    /\ data = { v \in Versions : records[v] # <<>> }
    /\ budget = [ e \in Engines |-> 0 ]
    /\ InitEngines

\* Register(ms...): a panic ends the process.  The revision with the mutex takes
\* one migration per call.
CallRegister ==
    /\ ~panicked
    /\ \E n \in 1..(IF regImpl = "panics" THEN 2 ELSE 1) :
        \E ms \in [ 1..n -> MigrationValues ] :
            /\ Len(regLog) + n <= MaxRegistered
            /\ RegistryOps + n <= MaxRegistryOps
            /\ LET out == Register(heap[0], ms)
                    h == [ heap EXCEPT ![0] = out.reg ]
               IN  /\ heap' = h
                   /\ panicked' = out.panicked
                   /\ migrations' = EngineView(h)
            /\ regLog' = regLog \o ms
    /\ UNCHANGED << engineVars, mcpVars, runVars, retry, regImpl, allocated, held, engineMap, edits >>

\* RegisteredMigrations(): make a map, copy every entry of the registry into it,
\* return it.
CallRegisteredMigrations ==
    /\ ~panicked
    /\ allocated < MaxSnapshots
    /\ RegistryOps < MaxRegistryOps
    /\ LET r == makeMap(allocated)
           h == [ heap EXCEPT ![r] = heap[0] ]
       IN  /\ heap' = h
           /\ held' = held \cup {r}
           /\ migrations' = EngineView(h)
    /\ allocated' = allocated + 1
    /\ UNCHANGED << engineVars, mcpVars, runVars, retry, regImpl, engineMap, panicked, regLog, edits >>

\* A caller inserts a key into, or deletes a key from, a map it was returned.
EditReturnedMap ==
    /\ ~panicked
    /\ edits < MaxEdits
    /\ RegistryOps < MaxRegistryOps
    /\ \E r \in held, v \in Versions, insert \in BOOLEAN :
        LET h == [ heap EXCEPT ![r] = IF insert THEN MapPut(@, v, LiveDescription)
                                      ELSE MapDelete(@, v) ]
        IN  /\ h # heap
            /\ heap' = h
            /\ migrations' = EngineView(h)
    /\ edits' = edits + 1
    /\ UNCHANGED << engineVars, mcpVars, runVars, retry, regImpl, allocated, held, engineMap, panicked, regLog >>

\* NewEngine(db, coll, migrations): the engine keeps the map it is given.
CallNewEngine ==
    /\ ~panicked
    /\ engineMap = << >>
    /\ \E r \in held :
        /\ engineMap' = << r >>
        /\ migrations' = heap[r]
    /\ UNCHANGED << engineVars, mcpVars, runVars, retry, regImpl, heap, allocated, held, panicked, regLog, edits >>

NextRegistry ==
    \/ CallRegister
    \/ CallRegisteredMigrations
    \/ EditReturnedMap
    \/ CallNewEngine

SpecRegistry == InitRegistry /\ [][NextRegistry]_vars

\* ------------------------------------------------- the ping loop's steps

\* mongo.Connect has returned a client; the loop is about to ping.
InitPing ==
    /\ impl = "run"
    /\ topology = "replicaSet"
    /\ canIndex = TRUE
    /\ migrations = EmptyMap
    /\ RegistryLoaded
    /\ McpConstructed
    /\ \E rev \in PingRevs :
        retry = [ rev |-> rev, pc |-> "ping", attempt |-> firstAttempt(rev), made |-> 0,
                  lastErr |-> "none", ctxDone |-> FALSE, result |-> "none" ]
    /\ lockDocs = <<>>
    /\ uniqueIdx = FALSE
    /\ ttlIdx = FALSE
    /\ records = [ v \in Versions |-> <<>> ]
    /\ data = {}
    /\ budget = [ e \in Engines |-> 0 ]
    /\ InitEngines

\* One client.Ping under its own timeout, and the tests that follow it.  The
\* inline loop pings under a context of its own; the others derive it from the
\* caller's, so a ping made after the cancellation fails.
PingOnce ==
    /\ retry.pc = "ping"
    /\ \E e \in PingErrors \cup {"none"} :
        /\ (retry.ctxDone /\ retry.rev # "inline") => e # "none"
        /\ retry' = [ retry EXCEPT
                        !.made = @ + 1,
                        !.lastErr = e,
                        !.pc = IF e = "none" \/ retry.attempt >= lastAttempt(retry.rev)
                               THEN "done" ELSE "wait",
                        !.result = IF e = "none" THEN "ok"
                                   ELSE IF retry.attempt >= lastAttempt(retry.rev)
                                   THEN "unreachable" ELSE "none" ]
    /\ UNCHANGED << engineVars, regVars, mcpVars, runVars, migrations >>

\* The delay between two attempts: time.Sleep, or a select that also watches
\* the caller's context.
WaitDelay ==
    /\ retry.pc = "wait"
    /\ IF retry.ctxDone /\ retry.rev \in {"recursive", "select"}
       THEN retry' = [ retry EXCEPT !.pc = "done", !.result = "ctxErr" ]
       ELSE retry' = [ retry EXCEPT !.pc = "ping", !.attempt = @ + 1 ]
    /\ UNCHANGED << engineVars, regVars, mcpVars, runVars, migrations >>

\* The caller's context is cancelled (its timeout passes, or a signal arrives).
CancelPing ==
    /\ retry.pc # "done"
    /\ ~retry.ctxDone
    /\ retry' = [ retry EXCEPT !.ctxDone = TRUE ]
    /\ UNCHANGED << engineVars, regVars, mcpVars, runVars, migrations >>

NextPing ==
    \/ PingOnce
    \/ WaitDelay
    \/ CancelPing

SpecPing == InitPing /\ [][NextPing]_vars

\* ------------------------------------------------- the MCP server's operations

\* A server just constructed, in a process whose registry is empty.
InitMcp ==
    /\ impl = "run"
    /\ topology = "replicaSet"
    /\ canIndex = TRUE
    /\ migrations = EmptyMap
    /\ RegistryLoaded
    /\ handlerRev \in HandlerRevs
    /\ McpFresh
    /\ Connected
    /\ lockDocs = <<>>
    /\ uniqueIdx = FALSE
    /\ ttlIdx = FALSE
    /\ records = [ v \in Versions |-> <<>> ]
    /\ data = {}
    /\ budget = [ e \in Engines |-> 0 ]
    /\ InitEngines

\* A request arrives on the transport.
Arrive ==
    /\ Len(arrived) < MaxRequests
    /\ \E r \in Requests :
        /\ arrived' = Append(arrived, r)
        /\ inbox' = Append(inbox, r)
    /\ UNCHANGED << engineVars, regVars, retry, runVars, migrations, handlerRev, client, db, engine, opened,
                    disconnects, hpc, hreq, hret, hfail, outbox, closePc, closeClient, closes >>

\* Serve hands the stream to the SDK's session, which takes up the oldest
\* request and calls its handler.  The repository's code does not decide whether
\* the session waits for one handler before it calls the next: the mutex is held
\* inside ensureConnection and Close only.  Both are allowed here.  Handlers
\* are interchangeable: the free one with the lowest number is taken.
Dispatch(h) ==
    /\ hpc[h] = "idle"
    /\ \A g \in Handlers : g < h => hpc[g] # "idle"
    /\ inbox # << >>
    /\ LET req == Head(inbox)
       IN  /\ hreq' = [ hreq EXCEPT ![h] = req ]
           /\ hpc' = [ hpc EXCEPT ![h] =
                         IF req.method # "tools/call" THEN "respond"
                         ELSE IF req.tool \in DbTools THEN "ensure" ELSE "exec" ]
    /\ inbox' = Tail(inbox)
    /\ UNCHANGED << engineVars, regVars, retry, runVars, migrations, handlerRev, client, db, engine, opened,
                    disconnects, hret, hfail, arrived, outbox, closePc, closeClient, closes >>

\* ensureConnection, under the mutex: keep the stored handle when it answers
\* the ping, else connect and store the handle, its database and a new engine.
EnsureConnection(h) ==
    /\ hpc[h] = "ensure"
    /\ \/ /\ client # NilClient
          /\ disconnects[client] = 0
          /\ hpc' = [ hpc EXCEPT ![h] = "exec" ]
          /\ UNCHANGED << client, db, engine, opened, hret, hfail >>
       \/ /\ hpc' = [ hpc EXCEPT ![h] = "respond" ]
          /\ hret' = [ hret EXCEPT ![h] = withConnection(ConnectError) ]
          /\ hfail' = [ hfail EXCEPT ![h] = ConnectError ]
          /\ LET st == afterFailedConnect([ client |-> client, db |-> db, engine |-> engine ])
             IN  /\ client' = st.client
                 /\ db' = st.db
                 /\ engine' = st.engine
          /\ UNCHANGED opened
       \/ /\ opened < MaxHandles
          /\ LET st == storeConnection(opened + 1)
             IN  /\ client' = st.client
                 /\ db' = st.db
                 /\ engine' = st.engine
          /\ opened' = opened + 1
          /\ hpc' = [ hpc EXCEPT ![h] = "exec" ]
          /\ UNCHANGED << hret, hfail >>
    /\ UNCHANGED << engineVars, regVars, retry, runVars, migrations, handlerRev, disconnects, hreq,
                    arrived, inbox, outbox, closePc, closeClient, closes >>

\* What Engine.Up can return on the engine bound to handle c.
UpOutcomes(c) ==
    IF disconnects[c] > 0 THEN { DisconnectedError } ELSE { NilError, LockHeldError }

\* The body of the handler: s.engine is read without the mutex.
ExecTool(h) ==
    /\ hpc[h] = "exec"
    /\ IF hreq[h].tool \in DbTools
       THEN \E e \in UpOutcomes(engine) :
                /\ hret' = [ hret EXCEPT ![h] = handleUp(e) ]
                /\ hfail' = [ hfail EXCEPT ![h] = e ]
       ELSE \E e \in { NilError, MkdirError } :
                /\ hret' = [ hret EXCEPT ![h] = handleCreate(e) ]
                /\ hfail' = [ hfail EXCEPT ![h] = e ]
    /\ hpc' = [ hpc EXCEPT ![h] = "respond" ]
    /\ UNCHANGED << engineVars, regVars, retry, runVars, migrations, handlerRev, client, db, engine, opened,
                    disconnects, hreq, arrived, inbox, outbox, closePc, closeClient, closes >>

\* The session writes the response of a handler that has returned.
Respond(h) ==
    /\ hpc[h] = "respond"
    /\ outbox' = Append(outbox, response(hreq[h], hret[h]))
    /\ hpc' = [ hpc EXCEPT ![h] = "idle" ]
    /\ hreq' = [ hreq EXCEPT ![h] = NoRequest ]
    /\ hret' = [ hret EXCEPT ![h] = NoReturn ]
    /\ hfail' = [ hfail EXCEPT ![h] = NilError ]
    /\ UNCHANGED << engineVars, regVars, retry, runVars, migrations, handlerRev, client, db, engine, opened,
                    disconnects, arrived, inbox, closePc, closeClient, closes >>

\* Close, under the mutex: take the stored handle and the stored cancel
\* function, and store nil for both.
CloseSwap ==
    /\ closePc = "idle"
    /\ closes < MaxCloses
    /\ closeClient' = client
    /\ client' = NilClient
    /\ closeCancel' = cancel
    /\ cancel' = NoCancel
    /\ closePc' = "disconnect"
    /\ UNCHANGED << engineVars, regVars, retry, migrations, handlerRev, db, engine, opened,
                    disconnects, hpc, hreq, hret, hfail, arrived, inbox, outbox, closes,
                    starts, cmd >>

\* Close, after the mutex is released: call the cancel function it took,
\* disconnect the handle it took, return.
CloseDisconnect ==
    /\ closePc = "disconnect"
    /\ disconnects' = IF closeClient # NilClient
                      THEN [ disconnects EXCEPT ![closeClient] = @ + 1 ]
                      ELSE disconnects
    /\ starts' = IF closeCancel # NoCancel
                 THEN [ starts EXCEPT ![closeCancel].done = TRUE ]
                 ELSE starts
    /\ closeCancel' = NoCancel
    /\ closeClient' = NilClient
    /\ closePc' = "idle"
    /\ closes' = closes + 1
    /\ UNCHANGED << engineVars, regVars, retry, migrations, handlerRev, client, db, engine, opened,
                    hpc, hreq, hret, hfail, arrived, inbox, outbox, cancel, cmd >>

NextMcp ==
    \/ Arrive
    \/ \E h \in Handlers : Dispatch(h)
    \/ \E h \in Handlers : EnsureConnection(h)
    \/ \E h \in Handlers : ExecTool(h)
    \/ \E h \in Handlers : Respond(h)
    \/ CloseSwap
    \/ CloseDisconnect

SpecMcp == InitMcp /\ [][NextMcp]_vars

\* ------------------------------------------------- Start and its serve loop

\* Start, under the mutex: refuse when a cancel function is stored, else store
\* this call's stop function; then enter Serve.
StartCall(t) ==
    /\ starts[t].pc = "idle"
    /\ IF cancel # NoCancel
       THEN /\ starts' = [ starts EXCEPT ![t] = [ pc |-> "returned", done |-> TRUE,
                                                   ret |-> "alreadyRunning" ] ]
            /\ UNCHANGED cancel
       ELSE /\ starts' = [ starts EXCEPT ![t].pc = "serving" ]
            /\ cancel' = t
    /\ UNCHANGED << engineVars, regVars, mcpVars, retry, migrations, closeCancel, cmd >>

\* Serve returns: the SDK's Run ends once the context is done or the reader
\* is at end of stream.
ServeReturns(t) ==
    /\ starts[t].pc = "serving"
    /\ starts[t].done \/ cmd.stdin = "eof"
    /\ \E r \in ServeOutcomes(starts[t].done, cmd.stdin = "eof") :
        starts' = [ starts EXCEPT ![t].pc = "deferred", ![t].ret = r ]
    /\ UNCHANGED << engineVars, regVars, mcpVars, retry, migrations, cancel, closeCancel, cmd >>

\* Start's deferred function: stop(), then s.cancel = nil under the mutex.
StartDefer(t) ==
    /\ starts[t].pc = "deferred"
    /\ starts' = [ starts EXCEPT ![t].pc = "returned", ![t].done = TRUE ]
    /\ cancel' = NoCancel
    /\ UNCHANGED << engineVars, regVars, mcpVars, retry, migrations, closeCancel, cmd >>

\* SIGINT or SIGTERM: every context made by signal.NotifyContext and not yet
\* stopped is done.
Signal ==
    /\ \E t \in Starters : starts[t].pc = "serving" /\ ~starts[t].done
    /\ starts' = [ t \in Starters |->
                     IF starts[t].pc \in {"serving", "deferred"}
                     THEN [ starts[t] EXCEPT !.done = TRUE ] ELSE starts[t] ]
    /\ UNCHANGED << engineVars, regVars, mcpVars, retry, migrations, cancel, closeCancel, cmd >>

\* The client closes the server's standard input.
StdinEof ==
    /\ cmd.stdin = "open"
    /\ cmd' = [ cmd EXCEPT !.stdin = "eof" ]
    /\ UNCHANGED << engineVars, regVars, mcpVars, retry, migrations, cancel, closeCancel, starts >>

\* One server, Start and Close called on it in any order.
InitStart == InitMcp

NextStart ==
    \/ \E t \in Starters : StartCall(t)
    \/ \E t \in Starters : ServeReturns(t)
    \/ \E t \in Starters : StartDefer(t)
    \/ Signal
    \/ StdinEof
    \/ CloseSwap
    \/ CloseDisconnect

SpecStart == InitStart /\ [][NextStart]_vars

\* ------------------------------------------------- the mcp command

\* runMCP has built the server and deferred its Close.
InitCmd ==
    /\ impl = "run"
    /\ topology = "replicaSet"
    /\ canIndex = TRUE
    /\ migrations = EmptyMap
    /\ RegistryLoaded
    /\ handlerRev = "results"
    /\ client = NilClient
    /\ db = NilClient
    /\ engine = NilClient
    /\ opened = 0
    /\ disconnects = [ c \in Handles |-> 0 ]
    /\ hpc = [ h \in Handlers |-> "idle" ]
    /\ hreq = [ h \in Handlers |-> NoRequest ]
    /\ hret = [ h \in Handlers |-> NoReturn ]
    /\ hfail = [ h \in Handlers |-> NilError ]
    /\ arrived = << >>
    /\ inbox = << >>
    /\ outbox = << >>
    /\ closePc = "idle"
    /\ closeClient = NilClient
    /\ closes = 0
    /\ cancel = NoCancel
    /\ closeCancel = NoCancel
    /\ starts = [ t \in Starters |-> NotStarted ]
    /\ \E rev \in CmdRevs : cmd = [ rev |-> rev, pc |-> "run", stdin |-> "open", exit |-> 0 ]
    /\ Connected
    /\ lockDocs = <<>>
    /\ uniqueIdx = FALSE
    /\ ttlIdx = FALSE
    /\ records = [ v \in Versions |-> <<>> ]
    /\ data = {}
    /\ budget = [ e \in Engines |-> 0 ]
    /\ InitEngines

\* runMCP calls server.Start().
CmdStart ==
    /\ cmd.pc = "run"
    /\ StartCall(1)

\* While Start serves, requests arrive and the handlers run.
CmdArrive ==
    /\ starts[1].pc = "serving"
    /\ cmd.stdin = "open"
    /\ Arrive

CmdTool ==
    /\ starts[1].pc = "serving"
    /\ \E h \in Handlers :
        \/ Dispatch(h)
        \/ EnsureConnection(h)
        \/ ExecTool(h)
        \/ Respond(h)

\* runMCP looks at what Start returned.
CmdHandle ==
    /\ cmd.pc = "run"
    /\ starts[1].pc = "returned"
    /\ cmd' = [ cmd EXCEPT !.pc = runMCPAfterStart(cmd.rev, starts[1].ret).pc,
                           !.exit = runMCPAfterStart(cmd.rev, starts[1].ret).exit ]
    /\ UNCHANGED << engineVars, regVars, mcpVars, retry, migrations, cancel, closeCancel, starts >>

\* The deferred server.Close() of a runMCP that returns.
CmdClose ==
    /\ cmd.pc = "closing"
    /\ closes = 0
    /\ \/ CloseSwap
       \/ CloseDisconnect

\* The process ends with the exit code runMCP chose.
CmdExit ==
    /\ cmd.pc = "closing"
    /\ closes > 0
    /\ cmd' = [ cmd EXCEPT !.pc = "exited" ]
    /\ UNCHANGED << engineVars, regVars, mcpVars, retry, migrations, cancel, closeCancel, starts >>

NextCmd ==
    \/ CmdStart
    \/ CmdArrive
    \/ CmdTool
    \/ ServeReturns(1)
    \/ StartDefer(1)
    \/ Signal
    \/ StdinEof
    \/ CmdHandle
    \/ CmdClose
    \/ CmdExit

SpecCmd == InitCmd /\ [][NextCmd]_vars

\* A step of a live engine inside its call (the process keeps running).
EngineStep(e) ==
    ReadPlan(e) \/ Execute(e) \/ NoTxBody(e) \/ NoTxRecord(e) \/ Release(e)

\* The fleet, with the database's TTL monitor running whenever it has work and
\* every live engine going on with the call it is in.
SpecFair ==
    /\ Init
    /\ [][Next]_vars
    /\ WF_vars(TTLExpire)
    /\ \A e \in Engines : WF_vars(EngineStep(e))

\* ------------------------------------------------------------- properties

Returned(e) == pc[e] = "idle" /\ result[e] # "none"

\* The call got the lock and the records: what it returns is the plan's outcome.
Completed(e) == Returned(e) /\ result[e] \in {"ok", "checksumMismatch", "runErr"}

StrLessEq(a, b) == a = b \/ StrLess(a, b)

Ascending(s) == \A i, j \in 1..Len(s) : i < j => StrLessEq(s[i], s[j])
Descending(s) == \A i, j \in 1..Len(s) : i < j => StrLessEq(s[j], s[i])
StrictlyAscending(s) == \A i, j \in 1..Len(s) : i < j => StrLess(s[i], s[j])
StrictlyDescending(s) == \A i, j \in 1..Len(s) : i < j => StrLess(s[j], s[i])

\* The stored checksum of v differs from the one computed from the code.
Mismatch(recs, v) ==
    /\ recs[v] # <<>>
    /\ getAppliedMap(recs)[v].checksum # calculateChecksum(v, migrations[v])

\* C1: at most one engine is between a successful lock acquire and its release.
MutualExclusion == Cardinality({ e \in Engines : Running(e) }) <= 1

\* C2: an up("") that finds a registered version recorded with a checksum other
\* than the live one (and meets no failing database call or migration body)
\* returns the checksum-mismatch error, has invoked no apply and has left the
\* records as they were.
ChecksumGuard ==
    \A e \in Engines :
        ( /\ Completed(e)
          /\ result[e] # "runErr"
          /\ dir[e] = "up"
          /\ target[e] = NoTarget
          /\ \E v \in DOMAIN migrations : Mismatch(recs0[e], v) )
        => ( /\ result[e] = "checksumMismatch"
             /\ log[e] = <<>>
             /\ records = recs0[e] )

\* C3: a successful down(V), V registered and applied, has reverted exactly the
\* applied registered versions greater than V, in descending order; V's revert
\* was not called and V's record remains.
DownLeavesTarget ==
    \A e \in Engines :
        ( /\ Returned(e)
          /\ result[e] = "ok"
          /\ dir[e] = "down"
          /\ target[e] \in DOMAIN migrations
          /\ recs0[e][target[e]] # <<>> )
        => ( /\ records[target[e]] # <<>>
             /\ target[e] \notin Range(log[e])
             /\ Range(log[e]) = { v \in DOMAIN migrations :
                                    recs0[e][v] # <<>> /\ StrLess(target[e], v) }
             /\ Descending(log[e]) )

\* C4: a successful up(V), V not empty, has applied exactly the registered
\* versions that were pending and are less than or equal to V, in ascending
\* order, and none greater than V.
UpToTarget ==
    \A e \in Engines :
        ( /\ Returned(e)
          /\ result[e] = "ok"
          /\ dir[e] = "up"
          /\ target[e] # NoTarget )
        => ( /\ Range(log[e]) = { v \in DOMAIN migrations :
                                    recs0[e][v] = <<>> /\ StrLessEq(v, target[e]) }
             /\ Ascending(log[e]) )

Twice(s) == [ i \in 1..(2 * Len(s)) |-> s[(i + 1) \div 2] ]

\* The round trip of C6 has returned: up("") from an empty collection, then down("").
RoundTripDone(e) ==
    /\ Returned(e)
    /\ result[e] = "ok"
    /\ dir[e] = "down"
    /\ target[e] = NoTarget
    /\ prev[e] = [ dir |-> "up", target |-> NoTarget, fromEmpty |-> TRUE ]

\* C6: after a successful up("") on an empty collection, a successful down("")
\* leaves the collection empty and has invoked the revert of every migration
\* the up applied exactly once, in the reverse of the apply order.
RoundTrip ==
    \A e \in Engines :
        RoundTripDone(e)
        => ( /\ IsEmpty(records)
             /\ log[e] = Reverse(getSortedVersions) )

\* What the round trip does guarantee: after a successful up("") on an empty
\* collection, a successful down("") leaves the collection empty and has invoked the reverts in the
\* reverse of the apply order: each once where transactions are supported, each
\* twice in succession (inside the refused transaction, then in the re-run
\* without one) where they are not.
RoundTripWithRerun ==
    \A e \in Engines :
        RoundTripDone(e)
        => ( /\ IsEmpty(records)
             /\ log[e] = IF topology = "standalone"
                         THEN Twice(Reverse(getSortedVersions))
                         ELSE Reverse(getSortedVersions) )

\* The round trip has returned on a deployment without transactions,
\* every revert invoked and the collection empty again.
RoundTripWitness ==
    \E e \in Engines :
        /\ RoundTripDone(e)
        /\ topology = "standalone"
        /\ Len(log[e]) >= 4
        /\ IsEmpty(records)

\* C7: the apply invocations of an up are strictly ascending by version, the
\* revert invocations of a down strictly descending.
StrictOrdering ==
    \A e \in Engines :
        IF dir[e] = "up" THEN StrictlyAscending(log[e]) ELSE StrictlyDescending(log[e])

\* The order that does hold: the apply invocations of an up are ascending by version and the
\* revert invocations of a down descending, a version being repeated only next to
\* itself (the re-run of its body without a transaction).
SortedOrdering ==
    \A e \in Engines :
        IF dir[e] = "up" THEN Ascending(log[e]) ELSE Descending(log[e])

\* An up has returned success having invoked the apply of one
\* version twice and the apply of another version as well.
SortedOrderingWitness ==
    \E e \in Engines :
        /\ Returned(e) /\ result[e] = "ok" /\ dir[e] = "up"
        /\ \E i, j, k \in 1..Len(log[e]) :
              i < j /\ log[e][i] = log[e][j] /\ log[e][k] # log[e][i]

\* C8: an Up/Down entered while a lock document of another actor exists, and
\* whose insert the database answers, returns LockHeld, enters no critical
\* section and leaves lock documents, records and data as they were.
LockHeldWhenLocked ==
    [][ \A e \in Engines :
          ( /\ budget'[e] < budget[e]
            /\ dir'[e] \in {"up", "down"}
            /\ \E i \in 1..Len(lockDocs) : lockDocs[i] # e
            /\ result'[e] # "lockErr" )
          => ( /\ result'[e] = "lockHeld"
               /\ pc'[e] = "idle"
               /\ lockDocs' = lockDocs
               /\ records' = records
               /\ data' = data ) ]_vars

\* C9: when an Up/Down call has returned, no lock document inserted by this
\* engine is left in the lock collection.
LockReleasedOnReturn ==
    \A e \in Engines : pc[e] = "idle" => e \notin Range(lockDocs)

\* C10: the lock document of an engine that died holding it is eventually
\* removed.
CrashRecovery ==
    \A e \in Engines :
        (pc[e] = "dead" /\ e \in Range(lockDocs)) ~> (e \notin Range(lockDocs))

\* C11: the lock collection never holds more than one lock document.
AtMostOneLockDoc == Len(lockDocs) <= 1

\* C12: the migrations collection never holds more than one record of a version.
OneRecordPerVersion == \A v \in Versions : Len(records[v]) <= 1

\* The engine that takes the step.
Stepped(e) ==
    \/ pc'[e] # pc[e]
    \/ plan'[e] # plan[e]
    \/ budget'[e] # budget[e]
    \/ result'[e] # result[e]

\* C13: a step that inserts, replaces or deletes a migration record is taken by
\* an engine whose lock document is in the lock collection.
WritesInsideCriticalSection ==
    [][ records' # records
        => \A e \in Engines : Stepped(e) => e \in Range(lockDocs) ]_vars

\* C14: a Force(V) that has returned has invoked no apply or revert; with V not
\* registered it failed and left the records alone; with V recorded it left the
\* records alone; otherwise, on success, the records are the ones it found plus
\* one record of V.
ForceContract ==
    \A e \in Engines :
        (Returned(e) /\ dir[e] = "force")
        => LET v == target[e] IN
           /\ log[e] = <<>>
           /\ v \notin DOMAIN migrations => (result[e] # "ok" /\ records = recs0[e])
           /\ (v \in DOMAIN migrations /\ recs0[e][v] # <<>>) => records = recs0[e]
           /\ (v \in DOMAIN migrations /\ recs0[e][v] = <<>> /\ result[e] = "ok")
                => records = InsertRecord(recs0[e], newRecord(v))

\* s without the repetitions of an element next to itself.
RECURSIVE Dedup(_)
Dedup(s) ==
    IF Len(s) <= 1 THEN s
    ELSE IF s[1] = s[2] THEN Dedup(Tail(s))
    ELSE <<s[1]>> \o Dedup(Tail(s))

\* The collection recs after the migrations of done completed in direction d:
\* up adds the record of each, down removes it.
RECURSIVE RecordsAfter(_, _, _)
RecordsAfter(d, done, recs) ==
    IF done = <<>> THEN recs
    ELSE RecordsAfter(d, Tail(done),
            IF d = "up" THEN InsertRecord(recs, newRecord(Head(done)))
            ELSE DeleteRecord(recs, Head(done)))

\* The plan the call of e computed from the collection it found.
PlanAtStart(e) == PlanOf(dir[e], target[e], getAppliedMap(recs0[e]))

\* The call of e stopped at the k-th migration of its plan: the records are those
\* of the first k-1 completed, and nothing after the k-th was invoked.
StoppedAt(e, k) ==
    LET done == SubSeq(PlanAtStart(e), 1, k - 1)
    IN  /\ records = RecordsAfter(dir[e], done, recs0[e])
        /\ Dedup(log[e]) \in { done, Append(done, PlanAtStart(e)[k]) }

\* C15: an Up/Down whose k-th migration failed is about to return (has returned)
\* an error, with the k-th and the later migrations still in its plan, the
\* records of the first k-1 written (down: deleted) and no migration after the
\* k-th invoked.
StopsAtFirstFailure ==
    \A e \in Engines :
        /\ (pc[e] = "release" /\ result[e] = "runErr")
           => /\ plan[e] # <<>>
              /\ Len(plan[e]) <= Len(PlanAtStart(e))
              /\ StoppedAt(e, Len(PlanAtStart(e)) - Len(plan[e]) + 1)
              /\ plan[e] = SubSeq(PlanAtStart(e), Len(PlanAtStart(e)) - Len(plan[e]) + 1,
                                  Len(PlanAtStart(e)))
        /\ (Returned(e) /\ result[e] = "runErr")
           => \E k \in 1..Len(PlanAtStart(e)) : StoppedAt(e, k)

\* C15 witness: a call has returned the failure of its second migration, the
\* first one completed and recorded (down: its record deleted).
StopsAtFirstFailureWitness ==
    \E e \in Engines :
        /\ Returned(e) /\ result[e] = "runErr"
        /\ Len(PlanAtStart(e)) >= 2
        /\ StoppedAt(e, 2)
        /\ Dedup(log[e]) = SubSeq(PlanAtStart(e), 1, 2)
        /\ records # recs0[e]

\* The versions whose data change and record disagree.
Skew(recs, dat) == { v \in Versions : (v \in dat) # (recs[v] # <<>>) }

FallbackContract ==
    [][ \A e \in Engines :
          (Stepped(e) /\ pc'[e] # "dead")
          => /\ pc[e] = "noTxBody"
                  => (pc'[e] \in {"noTxRecord", "release"} /\ records' = records)
             /\ pc[e] = "noTxRecord"
                  => /\ performBody(dir[e], Head(plan[e]), data) = data
                     /\ data' = data
                     /\ log'[e] = log[e]
                     /\ result'[e] = "runErr"
                          => (records' = records /\ pc'[e] = "release")
             /\ (pc[e] = "release" /\ result[e] = "runErr")
                  => (data' = data /\ records' = records /\ log'[e] = log[e]) ]_vars

\* C17 witness: on a deployment without transactions an up has returned an error
\* and the last version it invoked has its data change but no record.
FallbackContractWitness ==
    \E e \in Engines :
        /\ topology = "standalone"
        /\ Returned(e) /\ result[e] = "runErr" /\ dir[e] = "up"
        /\ log[e] # <<>>
        /\ log[e][Len(log[e])] \in data
        /\ records[log[e][Len(log[e])]] = <<>>

\* C18: within one Up/Down call the body of a version is invoked at most once.
BodyAtMostOnce ==
    \A e \in Engines :
        \A i, j \in 1..Len(log[e]) : log[e][i] = log[e][j] => i = j

\* C19: the listing a GetStatus call returned has one entry for every registered
\* or recorded version, ascending by version, applied iff the version has a
\* record and then with the record's applied_at; a recorded version that is not
\* registered carries the description of its record.
StatusCoversUnion ==
    \A e \in Engines :
        (Returned(e) /\ dir[e] = "status" /\ result[e] = "ok")
        => LET st == status[e]
               recorded == { v \in Versions : recs0[e][v] # <<>> }
           IN  /\ [ i \in 1..Len(st) |-> st[i].version ]
                    = SortStrings(DOMAIN migrations \cup recorded)
               /\ \A i \in 1..Len(st) :
                    LET v == st[i].version IN
                    /\ st[i].applied = (v \in recorded)
                    /\ v \in recorded
                         => st[i].applied_at = recs0[e][v][Len(recs0[e][v])].applied_at
                    /\ (v \in recorded /\ v \notin DOMAIN migrations)
                         => st[i].description = recs0[e][v][Len(recs0[e][v])].description

\* The call of e is the one that follows its successful up("") on an empty collection.
AfterFullUp(e) == prev[e] = [ dir |-> "up", target |-> NoTarget, fromEmpty |-> TRUE ]

\* C20: when an up("") on an empty collection has returned success, the
\* collection holds exactly one record for each registered version and none for
\* any other, each with a timestamp and the digest of "version:description" of the
\* registered migration; and a status call that follows lists every registered
\* version as applied.
FullUpRecords ==
    \A e \in Engines :
        /\ ( /\ Returned(e) /\ result[e] = "ok"
             /\ dir[e] = "up" /\ target[e] = NoTarget
             /\ IsEmpty(recs0[e]) )
           => \A v \in Versions :
                IF v \in DOMAIN migrations
                THEN /\ Len(records[v]) = 1
                     /\ records[v][1].version = v
                     /\ records[v][1].applied_at # "null"
                     /\ records[v][1].checksum = << v, ":", migrations[v] >>
                ELSE records[v] = <<>>
        /\ ( /\ Returned(e) /\ result[e] = "ok"
             /\ dir[e] = "status"
             /\ AfterFullUp(e) )
           => /\ { status[e][i].version : i \in 1..Len(status[e]) } = DOMAIN migrations
              /\ \A i \in 1..Len(status[e]) : status[e][i].applied

\* C20 witness: the status call that followed the up("") on an empty collection
\* has returned, the records of the registered versions in place.
FullUpRecordsWitness ==
    \E e \in Engines :
        /\ Returned(e) /\ result[e] = "ok" /\ dir[e] = "status"
        /\ AfterFullUp(e)
        /\ Len(status[e]) >= 2
        /\ \A v \in DOMAIN migrations : Len(records[v]) = 1

\* C21: a down(V), V not empty and not registered, that got the lock and the
\* records returns the not-found error, having invoked no revert and deleted no
\* record; a force(V), V not registered, returns the not-found error and leaves
\* the records as they were.
UnknownTargetRejected ==
    \A e \in Engines :
        /\ ( /\ Completed(e)
             /\ dir[e] = "down"
             /\ target[e] # NoTarget
             /\ target[e] \notin DOMAIN migrations )
           => ( /\ result[e] = "notFound"
                /\ log[e] = <<>>
                /\ records = recs0[e] )
        /\ ( /\ Returned(e)
             /\ dir[e] = "force"
             /\ target[e] \notin DOMAIN migrations )
           => ( /\ result[e] = "notFound"
                /\ records = recs0[e] )

\* The phases of one loop turn in which Engine.perform can fail.
Phases == {"body", "record"}

\* The errors Up/Down returns when version v fails in phase ph: Engine.perform
\* returns the error of either phase as it is, and the loop wraps it.
ErrorsOf(v, d, ph) == { ErrorOf(v, d, Cause) }

\* C22: the error an up/down returned for a migration that failed in its body or
\* in its record write identifies the version and the phase: it is the error of
\* one version and one phase only.
ErrorNamesVersionAndPhase ==
    \A e \in Engines :
        ( /\ Returned(e)
          /\ result[e] = "runErr"
          /\ log[e] # <<>> )
        => Cardinality({ vp \in Versions \X Phases :
                           err[e] \in ErrorsOf(vp[1], dir[e], vp[2]) }) = 1

\* The step is the ForceUnlock call of e.
UnlockStep(e) == budget'[e] < budget[e] /\ dir'[e] = "unlock"

\* C23: a ForceUnlock call returns success unless its database call failed,
\* whatever the lock collection holds and whoever inserted it; when it has
\* returned success the lock collection holds no document and an acquire would
\* not be refused; it leaves the migration records as they were; and the Up/Down
\* that follows a successful ForceUnlock of the same engine is not refused the lock.
UnlockContract ==
    /\ [][ \A e \in Engines :
             UnlockStep(e)
             => ( /\ result'[e] \in {"ok", "unlockErr"}
                  /\ result'[e] = "ok"
                       => ( /\ lockDocs' = <<>>
                            /\ ~(isDuplicateKey(uniqueIdxAfter))' )
                  /\ records' = records ) ]_vars
    /\ [] ( \A e \in Engines :
              ( /\ prev[e].dir = "unlock"
                /\ dir[e] \in {"up", "down"}
                /\ result[e] # "none" )
              => result[e] # "lockHeld" )

\* C23 witness: with the unique index on lock_id in place, a ForceUnlock returned
\* success and the up that followed it got the lock and has recorded a version.
UnlockContractWitness ==
    \E e \in Engines :
        /\ prev[e].dir = "unlock"
        /\ dir[e] = "up"
        /\ uniqueIdx
        /\ Returned(e) /\ result[e] = "ok"
        /\ \E v \in Versions : records[v] # <<>>

\* C24: every version of the registry maps to the first migration that was
\* handed to Register under it, and a Register call that was handed a version
\* a second time has panicked.
RegisterKeepsFirst ==
    /\ \A v \in DOMAIN heap[0] : heap[0][v] = FirstRegistered(regLog, v)
    /\ (\E i, j \in 1..Len(regLog) : i < j /\ regLog[i].version = regLog[j].version)
         => panicked

\* The plan of an up("") and the status listing of the engine, as they stand.
EnginePlanAndStatus ==
    << PlanOf("up", NoTarget, getAppliedMap(records)),
       PlanOf("down", NoTarget, getAppliedMap(records)),
       GetStatus(records) >>

\* C25: a step that inserts or deletes a key in a returned map changes neither
\* the registry nor any other returned map; a Register call changes no returned
\* map, and the plans and the status of an engine built from one stay as they were.
SnapshotIsolation ==
    [][ /\ edits' # edits
          => ( /\ heap'[0] = heap[0]
               /\ Cardinality({ r \in held : heap'[r] # heap[r] }) <= 1 )
        /\ regLog' # regLog
          => ( /\ \A r \in held : heap'[r] = heap[r]
               /\ engineMap # << >>
                    => ( /\ migrations' = migrations
                         /\ EnginePlanAndStatus' = EnginePlanAndStatus ) ) ]_vars

\* C25 witness: two maps were returned, one was edited, an engine was built from
\* a returned map, and the registry has since got a version the engine's map
\* does not have.
SnapshotIsolationWitness ==
    /\ Cardinality(held) = 2
    /\ edits > 0
    /\ engineMap # << >>
    /\ migrations # EmptyMap
    /\ \E v \in DOMAIN heap[0] : v \notin DOMAIN migrations
    /\ \E r \in held : heap[r] # migrations

\* A step in which handler h's ensureConnection call returns.
EnsureStep(h) == hpc[h] = "ensure" /\ hpc'[h] # "ensure"

\* C26: The MCP server opens no database handle at construction: a handle is
\* opened only once a database-backed tool has been called.  Before such a tool
\* runs, ensureConnection has returned: when it opens no handle, the stored
\* handle, database and engine are the ones stored before, and it succeeds that
\* way only if a handle was stored; when it opens a handle, it stores that
\* handle together with a database and an engine bound to it.  Whenever a
\* handle is stored, the stored engine and database are bound to that handle.
EnsureConnectionContract ==
    /\ [][ \A h \in Handlers : EnsureStep(h)
             => ( /\ opened' = opened => ( /\ client' = client /\ db' = db /\ engine' = engine
                                           /\ hpc'[h] = "exec" => client # NilClient )
                  /\ opened' # opened => ( /\ opened' = opened + 1
                                           /\ client' = opened'
                                           /\ db' = opened'
                                           /\ engine' = opened'
                                           /\ hpc'[h] = "exec" ) ) ]_vars
    /\ [] ( /\ client # NilClient => ( engine = client /\ db = client )
            /\ opened > 0 => \E i \in 1..Len(arrived) : arrived[i].tool \in DbTools
            /\ \A h \in Handlers : (hpc[h] = "exec" /\ hreq[h].tool \in DbTools) => engine # NilClient )

\* A stored handle stopped answering the ping while the server was open: a
\* second handle was opened and is stored with the engine, and a tool runs on it.
EnsureConnectionWitness ==
    /\ closes = 0 /\ closePc = "idle"
    /\ opened = 2 /\ client = 2 /\ engine = 2 /\ db = 2
    /\ \E h \in Handlers : hpc[h] = "exec" /\ hreq[h].tool \in DbTools

\* C27: Over any sequence of tool calls, ping failures, reconnects and Close
\* calls, when a Close call returns every handle the server has opened has been
\* disconnected exactly once: none is left connected, and no handle is ever
\* disconnected twice.
HandlesDisconnectedOnce ==
    /\ [][ closes' # closes => \A c \in 1..opened' : disconnects'[c] = 1 ]_vars
    /\ [] ( \A c \in Handles : disconnects[c] <= 1 )

\* A step in which the response of handler h is written.
RespondStep(h) == hpc[h] = "respond" /\ hpc'[h] = "idle"

\* The text ends with the parts of the error.
Describes(text, e) ==
    /\ Len(text) >= Len(e)
    /\ SubSeq(text, Len(text) - Len(e) + 1, Len(text)) = e

\* C28: A tool call that failed (the connection could not be opened, the
\* migration failed, the lock was held, the file could not be made) is answered
\* with a JSON-RPC result whose isError is true and whose content is one text
\* entry that carries the failure; the response has no JSON-RPC error object,
\* and the handler is free again for the requests that follow.
ToolFailureIsResult ==
    [][ \A h \in Handlers : (RespondStep(h) /\ hfail[h] # NilError)
          => LET r == outbox'[Len(outbox')]
             IN  /\ Len(outbox') = Len(outbox) + 1
                 /\ r.error = << >>
                 /\ Len(r.result) = 1
                 /\ r.result[1].isError
                 /\ Len(r.result[1].content) = 1
                 /\ r.result[1].content[1].type = "text"
                 /\ Describes(r.result[1].content[1].text, hfail[h])
                 /\ hpc'[h] = "idle" ]_vars

\* A failed migration_up was answered by an isError result built by
\* toolErrorResult, and the request after it was answered with success.
ToolFailureWitness ==
    /\ handlerRev = "results"
    /\ Len(outbox) = 2
    /\ outbox[1].result # << >> /\ outbox[1].result[1].isError
    /\ Describes(outbox[1].result[1].content[1].text, LockHeldError)
    /\ outbox[2].result # << >> /\ ~outbox[2].result[1].isError

\* The requests being handled, the responses written.
InFlight == { h \in Handlers : hpc[h] # "idle" }

CancelStopsPlan ==
    [][ \A e \in Engines : (cancelled[e] /\ Stepped(e))
          => ( /\ log'[e] = log[e]
               /\ records' = records
               /\ (plan[e] # <<>> /\ pc'[e] = "release") => result'[e] # "ok" ) ]_vars

\* C34: A document leaves the migrations collection only in a step of a down
\* call, it is one document of the version at the head of that call's plan, the
\* Down body of that version was the last body the call invoked, and the step
\* does not end the call with an error.  Up, GetStatus, Force, ForceUnlock and a
\* down turn that fails remove nothing.
DeleteOnlyAfterRevert ==
    [][ \A v \in Versions : Len(records'[v]) < Len(records[v])
          => \E e \in Engines :
                /\ Stepped(e)
                /\ dir[e] = "down"
                /\ pc[e] \in {"loop", "noTxRecord"}
                /\ plan[e] # <<>> /\ Head(plan[e]) = v
                /\ log'[e] # <<>> /\ log'[e][Len(log'[e])] = v
                /\ result'[e] = "running"
                /\ Len(records'[v]) = Len(records[v]) - 1
                /\ \A w \in Versions \ {v} : records'[w] = records[w] ]_vars

\* A down call has reverted a version and its record is gone.
DeleteOnlyAfterRevertWitness ==
    \E e \in Engines, v \in Versions :
        /\ dir[e] = "down" /\ result[e] = "running"
        /\ log[e] # <<>> /\ log[e][Len(log[e])] = v
        /\ recs0[e][v] # <<>> /\ records[v] = <<>>

\* The number of lock documents engine f inserted.
OwnedBy(docs, f) == Cardinality({ i \in 1..Len(docs) : docs[i] = f })

\* C35: The release at the end of an engine's call removes only a lock document
\* that this engine inserted: the documents of every other engine stay.
ReleaseOnlyOwn ==
    [][ \A e \in Engines : (pc[e] = "release" /\ pc'[e] = "idle")
          => \A f \in Engines \ {e} : OwnedBy(lockDocs', f) = OwnedBy(lockDocs, f) ]_vars

\* Versions that may have a record but are not in the engine's registry snapshot.
Orphans == Versions \ DOMAIN migrations

\* C36: Up and Down touch registered versions only: no step of an up or down
\* call invokes the body of an unregistered version, and the documents and the
\* schema change of every unregistered version stay as they are.
OrphansUntouched ==
    [][ \A e \in Engines : (Stepped(e) /\ dir'[e] \in {"up", "down"})
          => \A v \in Orphans :
                /\ records'[v] = records[v]
                /\ (v \in data') = (v \in data)
                /\ v \notin Range(log'[e])
                /\ v \notin Range(plan'[e]) ]_vars

\* A down call has reverted registered versions and ended with success while
\* the record of an unregistered version is in the collection.
OrphansUntouchedWitness ==
    \E e \in Engines, v \in Orphans :
        /\ dir[e] = "down" /\ result[e] = "ok" /\ log[e] # <<>>
        /\ records[v] # <<>>

\* A step in which engine e makes a GetStatus or Plan call.
ReadOnlyCall(e) == budget'[e] # budget[e] /\ dir'[e] \in {"status", "plan"}

\* C39: GetStatus and Plan are read-only and take no lock: such a call leaves
\* the migrations collection, the schema, the lock collection and its indexes
\* as they are, invokes no Up or Down body, and returns success or the error of
\* its one read, never the lock-held error, whatever the lock collection holds.
ReadOnlyCalls ==
    [][ \A e \in Engines : ReadOnlyCall(e)
          => ( /\ records' = records
               /\ data' = data
               /\ lockDocs' = lockDocs
               /\ uniqueIdx' = uniqueIdx /\ ttlIdx' = ttlIdx
               /\ log'[e] = <<>>
               /\ pc'[e] = "idle"
               /\ result'[e] \in {"ok", "readErr"} ) ]_vars

\* Plan returned a non-empty plan while another engine's lock document was in
\* the lock collection.
ReadOnlyCallsWitness ==
    \E e \in Engines :
        /\ dir[e] = "plan" /\ result[e] = "ok" /\ status[e] # <<>>
        /\ lockDocs # <<>> /\ \A i \in 1..Len(lockDocs) : lockDocs[i] # e

\* C37: An ensureConnection call that could not open a handle returns the
\* connect error and leaves the stored handle, database and engine as they
\* were; no database-backed tool body is entered except from an ensureConnection
\* call of the same handler, so the next tool call tries again.
FailedConnectKeepsState ==
    [][ \A h \in Handlers :
          /\ (EnsureStep(h) /\ hpc'[h] = "respond")
                => ( /\ client' = client /\ db' = db /\ engine' = engine
                     /\ opened' = opened
                     /\ hfail'[h] = ConnectError
                     /\ hret'[h] = withConnection(ConnectError) )
          /\ (hpc'[h] = "exec" /\ hpc[h] # "exec" /\ hreq'[h].tool \in DbTools)
                => ( EnsureStep(h) /\ client' # NilClient /\ engine' = client' ) ]_vars

\* The first tool call was answered with the connect error, nothing having been
\* stored; the call after it has opened a handle and runs its tool on it.
FailedConnectWitness ==
    /\ Len(outbox) = 1
    /\ outbox[1].result # << >> /\ outbox[1].result[1].isError
    /\ Describes(outbox[1].result[1].content[1].text, ConnectError)
    /\ closes = 0 /\ closePc = "idle"
    /\ opened = 1 /\ client = 1 /\ engine = 1
    /\ hpc[1] = "exec" /\ hreq[1].tool \in DbTools
    /\ \A g \in Handlers \ {1} : hpc[g] = "idle"

\* C32: The ping is attempted up to 5 times, stopping at the first success: the
\* loop returns success right after a ping that succeeded, it returns the
\* connect failure only after 5 failed pings, or once the context is cancelled,
\* and it never pings more than 5 times.
PingRetriedFiveTimes ==
    /\ retry.made <= 5
    /\ retry.result = "ok" => (retry.lastErr = "none" /\ retry.pc = "done")
    /\ retry.result = "unreachable" => (retry.made = 5 \/ retry.ctxDone)
    /\ retry.result = "ctxErr" => retry.ctxDone
    /\ (retry.pc = "done") = (retry.result # "none")

\* The serve loops started through Start that are running.
Serving == { t \in Starters : starts[t].pc = "serving" }

\* A Start call issued while another call's serve loop is running is refused
\* and changes neither the stored cancel function nor the running call.
RefusedWhileServing ==
    \A t, u \in Starters :
        (t # u /\ starts[u].pc = "serving" /\ starts[t].pc = "idle" /\ starts'[t].pc # "idle")
            => /\ starts'[t].pc = "returned"
               /\ starts'[t].ret = "alreadyRunning"
               /\ starts'[u] = starts[u]
               /\ cancel' = cancel

\* C38: Under any interleaving of Start and Close calls on one server, at most
\* one serve loop started through Start is running at a time, and a Start issued
\* while another Start's serve loop is running returns "mcp server already
\* running" and leaves the running one as it is.
OneServeLoop == [][RefusedWhileServing]_vars /\ [](Cardinality(Serving) <= 1)

\* C31: Once the server's context is cancelled or its reader is at end of
\* stream and the command has exited, Close has been called and has
\* disconnected the database handle; and a Start that ended with the end of
\* stream makes the command exit with success.
CommandClosesAndExits ==
    cmd.pc = "exited" =>
        /\ closes > 0
        /\ client = NilClient
        /\ opened > 0 => disconnects[opened] > 0
        /\ starts[1].ret = "eof" => cmd.exit = 0

====
